---- MODULE Spec2Model ----
(***************************************************************************)
(* Model of librustc_mir/borrow_check/nll/universal_regions.rs:            *)
(* construction of UniversalRegions (UniversalRegionsBuilder::build), the  *)
(* read-only queries on the result, and closure_mapping.                   *)
(*                                                                         *)
(* A RegionVid is a natural number.  A ty::Region is a record [tag, n].    *)
(* A type is only modelled by the regions it mentions and by a token that  *)
(* names its place in the signature.                                       *)
(***************************************************************************)
EXTENDS Integers, Sequences, FiniteSets, TLC

\* ------------------------------------------------------------- bounds
\* most regions (free occurrences) in the substs of a defining type
MaxFree == 3
\* most distinct late-bound regions in a signature binder
MaxLate == 2
\* most universal regions of one item (global + free + late-bound)
MaxUniversals == 4
\* most (flattened) inputs of a signature
MaxInputs == 1
\* most outlives bounds yielded in total by the explicit and implied passes
MaxFacts == 2
\* most iterations of the work-queue loop of non_local_bound that are followed
MaxSteps == 5

\* ---------------------------------------------------------- constants
FIRST_GLOBAL_INDEX == 0

\* ------------------------------------------------------------ regions
ReStatic == [tag |-> "ReStatic", n |-> 0]
ReEarlyBound(i) == [tag |-> "ReEarlyBound", n |-> i]
ReVar(v) == [tag |-> "ReVar", n |-> v]
ReLateBound(i) == [tag |-> "ReLateBound", n |-> i]
ReErased == [tag |-> "ReErased", n |-> 0]

\* Option<T>: None is the empty sequence, Some(v) the one-element sequence
None == << >>
Some(v) == << v >>

Min(a, b) == IF a <= b THEN a ELSE b

Range(s) == { s[i] : i \in 1..Len(s) }

RECURSIVE Reverse(_)
Reverse(s) == IF s = << >> THEN << >> ELSE Append(Reverse(Tail(s)), Head(s))

\* ------------------------------------------------------ TransitiveRelation
\* rustc_data_structures::transitive_relation::TransitiveRelation<RegionVid>:
\* elements in insertion order (their position is their Index), the set of
\* direct edges, and the cached transitive closure.  The code drops the
\* cache on every new edge and recomputes it on the next read; here it is
\* brought up to date at once (the iteration of compute_closure, resumed
\* from the closure of the edges so far), which no read can tell apart.
TR_new == [elements |-> << >>, edges |-> {}, closure |-> {}]

\* Index of a (1-based position in elements), 0 when a was never added
TR_index(rel, a) ==
  IF a \in Range(rel.elements)
    THEN CHOOSE i \in 1..Len(rel.elements) : rel.elements[i] = a
    ELSE 0

TR_add_index(rel, a) ==
  IF a \in Range(rel.elements) THEN rel
  ELSE [rel EXCEPT !.elements = Append(@, a)]

\* compute_closure: repeat, for every edge S -> T, "add S -> T" and "merge
\* the row of T into the row of S", until nothing changes
RECURSIVE TR_closure_from(_, _)
TR_closure_from(edges, m) ==
  LET m2 == m \cup edges
              \cup UNION { { <<e[1], p[2]>> : p \in { q \in m : q[1] = e[2] } }
                           : e \in edges }
  IN  IF m2 = m THEN m ELSE TR_closure_from(edges, m2)

\* add(a, b): both become elements, the edge is pushed unless present
TR_add(rel, a, b) ==
  LET r1 == TR_add_index(rel, a)
      r2 == TR_add_index(r1, b)
      edges == r2.edges \cup {<<a, b>>}
  IN  [r2 EXCEPT !.edges = edges, !.closure = TR_closure_from(edges, rel.closure)]

\* with_closure: the closure the reads work on
TR_closure(rel) == rel.closure

\* contains(a, b): both known and b reachable from a in the closure
TR_contains(rel, a, b) ==
  /\ TR_index(rel, a) # 0
  /\ TR_index(rel, b) # 0
  /\ <<a, b>> \in TR_closure(rel)

\* reachable_from(a): the row of a in the closure, in Index order
TR_reachable_from(rel, a) ==
  IF TR_index(rel, a) = 0 THEN << >>
  ELSE LET clo == TR_closure(rel)
       IN  SelectSeq(rel.elements, LAMBDA x : <<a, x>> \in clo)

\* pare_down: keep candidates[i], drop every later j that i can reach
RECURSIVE TR_pare_down(_, _)
TR_pare_down(candidates, clo) ==
  IF candidates = << >> THEN << >>
  ELSE LET c == Head(candidates)
       IN  << c >> \o TR_pare_down(
                 SelectSeq(Tail(candidates), LAMBDA x : <<c, x>> \notin clo), clo)

\* minimal_upper_bounds(a, b)
TR_minimal_upper_bounds(rel, a0, b0) ==
  IF TR_index(rel, a0) = 0 \/ TR_index(rel, b0) = 0 THEN << >>
  ELSE
    LET swap == TR_index(rel, a0) > TR_index(rel, b0)
        a == IF swap THEN b0 ELSE a0
        b == IF swap THEN a0 ELSE b0
        clo == TR_closure(rel)
        inter == SelectSeq(rel.elements,
                           LAMBDA x : <<a, x>> \in clo /\ <<b, x>> \in clo)
        lub == IF <<a, b>> \in clo THEN << b >>
               ELSE IF <<b, a>> \in clo THEN << a >>
               ELSE TR_pare_down(Reverse(TR_pare_down(inter, clo)), clo)
    IN  Reverse(lub)

\* parents(a): the minimal strict ancestors of a; whatever can reach a (a
\* itself, when the relation is reflexive) is removed first
TR_parents(rel, a) ==
  IF TR_index(rel, a) = 0 THEN << >>
  ELSE
    LET clo == TR_closure(rel)
        anc == SelectSeq(rel.elements,
                         LAMBDA x : <<a, x>> \in clo /\ <<x, a>> \notin clo)
    IN  Reverse(TR_pare_down(Reverse(TR_pare_down(anc, clo)), clo))

\* mutual_immediate_postdominator(mubs): pop m, pop n, push their minimal
\* upper bounds, until zero or one candidate is left
RECURSIVE TR_mutual_immediate_postdominator(_, _)
TR_mutual_immediate_postdominator(rel, mubs) ==
  IF Len(mubs) = 0 THEN None
  ELSE IF Len(mubs) = 1 THEN Some(mubs[1])
  ELSE LET m == mubs[Len(mubs)]
           n == mubs[Len(mubs) - 1]
       IN  TR_mutual_immediate_postdominator(
             rel, SubSeq(mubs, 1, Len(mubs) - 2) \o TR_minimal_upper_bounds(rel, n, m))

\* ------------------------------------------------------------- state
VARIABLES
  item,                \* the analysed item, as its collaborators describe it
  pc,                  \* position: "new", "explicit", "implied", "closing",
                       \* "built", "nlb" (inside non_local_bound), "mapped", "bug"
  bug,                 \* message of the fatal internal error, "" when none
  num_region_vars,     \* infcx.num_region_vars()
  fr_static,
  first_extern_index,
  first_local_index,
  num_universals,
  defining_ty,
  indices,             \* UniversalRegionIndices.indices: ty::Region -> RegionVid
  inputs_and_output,   \* the liberated [inputs.., output]
  input_tys,
  output_ty,
  region_bound_pairs,
  relations,           \* [outlives, inverse_outlives]
  ty_i,                \* position of the loop over inputs_and_output
  n_facts,             \* outlives bounds consumed so far
  q,                   \* the running / last non_local_bound query
  cm,                  \* the last closure_mapping call
  rv                   \* the to_region_vid calls made on the result

vars == << item, pc, bug, num_region_vars, fr_static, first_extern_index,
           first_local_index, num_universals, defining_ty, indices,
           inputs_and_output, input_tys, output_ty, region_bound_pairs,
           relations, ty_i, n_facts, q, cm, rv >>

\* --------------------------------------------------------------- items
Kinds == {"TyFnDef", "TyClosure", "TyGenerator", "TyUint", "TyOther"}

\* What the collaborators report of an item:
\*   kind             the shape of its defining type (before region replacement)
\*   substs_regions   number of regions that are entries of its substs
\*   nested_regions   number of further free regions, inside the types of its
\*                    substs (the upvar types of a closure, for one)
\*   identity_regions number of regions of Substs::identity_for_item(base)
\*   late_bound       number of distinct late-bound regions of the signature
\*   n_inputs         number of (flattened) inputs of the signature
Items ==
  { it \in [kind : Kinds, substs_regions : 0..MaxFree, nested_regions : 0..MaxFree,
            identity_regions : 0..MaxFree, late_bound : 0..MaxLate,
            n_inputs : 0..MaxInputs] :
      /\ it.substs_regions + it.nested_regions <= MaxFree
      /\ 1 + it.substs_regions + it.nested_regions + it.late_bound <= MaxUniversals
      \* the type of a fn item is the FnDef over its identity substs, whose
      \* types are its own type parameters
      /\ it.kind = "TyFnDef" => it.substs_regions = it.identity_regions
                                 /\ it.nested_regions = 0
      \* usize mentions no region and takes no input
      /\ it.kind = "TyUint" => it.substs_regions = 0 /\ it.nested_regions = 0
                                /\ it.late_bound = 0 /\ it.n_inputs = 0
      /\ it.kind = "TyOther" => it.late_bound = 0 /\ it.n_inputs = 0
      \* a generator signature is never read
      /\ it.kind = "TyGenerator" => it.late_bound = 0 }

NoQuery == [dir |-> "none", fr0 |-> 0, queue |-> << >>, external_parents |-> << >>,
            steps |-> 0, done |-> FALSE, result |-> None]
NoMapping == [closure_ty |-> << >>, expected_num_vars |-> 0, called |-> FALSE,
              panicked |-> FALSE, region_mapping |-> << >>]
Ty(name, i) == [ty |-> name, i |-> i]
NoCalls == [r |-> ReStatic, results |-> << >>]
NoTy == [sty |-> "none", substs |-> << >>, nested |-> << >>]

\* UniversalRegions::new (lines 168-188): the builder starts with empty
\* region_bound_pairs and two empty relations.  num_region_vars is whatever
\* the inference context already holds.
Init ==
  /\ item \in Items
  /\ pc = "new"
  /\ bug = ""
  /\ num_region_vars \in 0..1
  /\ fr_static = 0
  /\ first_extern_index = 0
  /\ first_local_index = 0
  /\ num_universals = 0
  /\ defining_ty = NoTy
  /\ indices = << >>
  /\ inputs_and_output = << >>
  /\ input_tys = << >>
  /\ output_ty = Ty("none", 0)
  /\ region_bound_pairs = << >>
  /\ relations = [outlives |-> TR_new, inverse_outlives |-> TR_new]
  /\ ty_i = 0
  /\ n_facts = 0
  /\ q = NoQuery
  /\ cm = NoMapping
  /\ rv = NoCalls

\* ------------------------------------------------ classification (queries)
\* (lo..hi).contains(index), a half-open range
InRange(lo, hi, index) == lo <= index /\ index < hi

is_universal_region(r) == InRange(FIRST_GLOBAL_INDEX, num_universals, r)

region_classification(r) ==
  IF InRange(FIRST_GLOBAL_INDEX, first_extern_index, r) THEN Some("Global")
  ELSE IF InRange(first_extern_index, first_local_index, r) THEN Some("External")
  ELSE IF InRange(first_local_index, num_universals, r) THEN Some("Local")
  ELSE None

is_global_free_region(r) == region_classification(r) = Some("Global")
is_extern_free_region(r) == region_classification(r) = Some("External")
is_local_free_region(r) == region_classification(r) = Some("Local")

universal_regions == [i \in 1..num_universals |-> FIRST_GLOBAL_INDEX + i - 1]

num_global_and_external_regions_FirstExtern == first_extern_index
num_global_and_external_regions == first_local_index

outlives_DirectEdge(fr1, fr2) == <<fr1, fr2>> \in relations.outlives.edges
outlives(fr1, fr2) == TR_contains(relations.outlives, fr1, fr2)

regions_outlived_by(fr1) == TR_reachable_from(relations.outlives, fr1)

\* ------------------------------------------------------------ builder
\* UniversalRegionRelations::relate_universal_regions: fr_a: fr_b
relate_universal_regions_UnlessKnown(rels, fr_a, fr_b) ==
  IF fr_b \in Range(rels.outlives.elements) THEN rels
  ELSE [outlives |-> TR_add(rels.outlives, fr_a, fr_b),
        inverse_outlives |-> TR_add(rels.inverse_outlives, fr_b, fr_a)]
relate_universal_regions_SameDirection(rels, fr_a, fr_b) ==
  [outlives |-> TR_add(rels.outlives, fr_a, fr_b),
   inverse_outlives |-> TR_add(rels.inverse_outlives, fr_a, fr_b)]
relate_universal_regions(rels, fr_a, fr_b) ==
  [outlives |-> TR_add(rels.outlives, fr_a, fr_b),
   inverse_outlives |-> TR_add(rels.inverse_outlives, fr_b, fr_a)]

\* UniversalRegionIndices::to_region_vid: [ok, vid]; ok = FALSE is the
\* unwrap() of a missing key or the bug!() of an unexpected region shape
to_region_vid_NoBug(ind, r) ==
  IF r \in DOMAIN ind THEN [ok |-> TRUE, vid |-> ind[r]]
  ELSE [ok |-> TRUE, vid |-> r.n]
to_region_vid(ind, r) ==
  IF r.tag \in {"ReEarlyBound", "ReStatic"}
    THEN IF r \in DOMAIN ind THEN [ok |-> TRUE, vid |-> ind[r]]
                             ELSE [ok |-> FALSE, vid |-> 0]
  ELSE IF r.tag = "ReVar" THEN [ok |-> TRUE, vid |-> r.n]
  ELSE [ok |-> FALSE, vid |-> 0]

\* the regions free in the type of the item: the entries of its substs
\* first (the generics of the base item lead the substs), then those inside
\* the types of the substs
free_regions(it) == it.substs_regions + it.nested_regions

\* defining_ty: every region free in the type of the item is replaced by a
\* fresh region variable (fold_regions calls next_nll_region_var once per
\* region it meets); nrv is num_region_vars before the call
builder_defining_ty(it, nrv) ==
  [sty |-> it.kind,
   substs |-> [i \in 1..it.substs_regions |-> ReVar(nrv + i - 1)],
   nested |-> [i \in 1..it.nested_regions |-> ReVar(nrv + it.substs_regions + i - 1)]]

\* compute_indices: [ok, msg, indices]
compute_indices(it, static, dty) ==
  LET identity_substs == [i \in 1..it.identity_regions |-> ReEarlyBound(i)]
      closure_like == dty.sty \in {"TyClosure", "TyGenerator"}
      fr_substs == IF dty.sty = "TyUint" THEN identity_substs ELSE dty.substs
      n == Min(Len(identity_substs), Len(fr_substs))
      keys == {ReStatic} \cup { identity_substs[i] : i \in 1..n }
  IN  IF dty.sty \notin {"TyClosure", "TyGenerator", "TyFnDef", "TyUint"}
        THEN [ok |-> FALSE, msg |-> "unknown defining type", indices |-> << >>]
      ELSE IF closure_like /\ Len(dty.substs) # Len(identity_substs)
        THEN [ok |-> FALSE, msg |-> "closure substs regions differ from identity substs",
              indices |-> << >>]
      ELSE IF dty.sty = "TyUint" /\ Len(identity_substs) # 0
        THEN [ok |-> FALSE, msg |-> "identity substs not empty", indices |-> << >>]
      ELSE [ok |-> TRUE, msg |-> "",
            indices |-> [r \in keys |->
                           IF r = ReStatic THEN static
                           ELSE to_region_vid(<< >>, fr_substs[r.n]).vid]]

\* every defining type handled as the closure arm does: environment,
\* flattened inputs, output, under the binder of the signature
compute_inputs_and_output_AllAsClosure(it, dty) ==
  [ok |-> TRUE, msg |-> "",
   tys |-> << Ty("closure_env_ty", 0) >> \o [i \in 1..it.n_inputs |-> Ty("input", i)]
             \o << Ty("output", 0) >>,
   late_bound |-> it.late_bound]

\* compute_inputs_and_output: [ok, msg, tys, late_bound]; tys is the list
\* under the binder, late_bound the number of regions the binder binds
compute_inputs_and_output(it, dty) ==
  LET inputs == [i \in 1..it.n_inputs |-> Ty("input", i)]
  IN  CASE dty.sty = "TyClosure" ->
             [ok |-> TRUE, msg |-> "",
              tys |-> << Ty("closure_env_ty", 0) >> \o inputs \o << Ty("output", 0) >>,
              late_bound |-> it.late_bound]
        [] dty.sty = "TyGenerator" ->
             [ok |-> TRUE, msg |-> "",
              tys |-> << Ty("defining_ty", 0), Ty("generator_return_ty", 0) >>,
              late_bound |-> 0]
        [] dty.sty = "TyFnDef" ->
             [ok |-> TRUE, msg |-> "",
              tys |-> inputs \o << Ty("output", 0) >>,
              late_bound |-> it.late_bound]
        [] dty.sty = "TyUint" ->
             [ok |-> TRUE, msg |-> "", tys |-> << Ty("defining_ty", 0) >>, late_bound |-> 0]
        [] OTHER ->
             [ok |-> FALSE, msg |-> "unexpected defining type", tys |-> << >>,
              late_bound |-> 0]

Fail(msg) ==
  /\ pc' = "bug"
  /\ bug' = msg
  /\ UNCHANGED << item, num_region_vars, fr_static, first_extern_index,
                  first_local_index, num_universals, defining_ty, indices,
                  inputs_and_output, input_tys, output_ty, region_bound_pairs,
                  relations, ty_i, n_facts, q, cm, rv >>

\* build, line 389: assert_eq!(FIRST_GLOBAL_INDEX, self.infcx.num_region_vars())
no_region_vars_yet_NoAssert(nrv) == TRUE
no_region_vars_yet(nrv) == FIRST_GLOBAL_INDEX = nrv

\* build, lines 383-411: allocate the global region, the regions free in
\* the defining type and the late-bound regions of the signature
BuildAllocate ==
  /\ pc = "new"
  /\ LET static == num_region_vars
         extern == num_region_vars + 1
         dty == builder_defining_ty(item, extern)
         after_dty == extern + free_regions(item)
         ind == compute_indices(item, static, dty)
         bio == compute_inputs_and_output(item, dty)
         after_lib == after_dty + bio.late_bound
     IN  IF ~no_region_vars_yet(num_region_vars) THEN Fail("region variables already exist")
         ELSE IF ~ind.ok THEN Fail(ind.msg)
         ELSE IF ~bio.ok THEN Fail(bio.msg)
         ELSE /\ fr_static' = static
              /\ first_extern_index' = extern
              /\ defining_ty' = dty
              /\ indices' = ind.indices
              /\ first_local_index' = after_dty
              /\ inputs_and_output' = bio.tys
              /\ num_universals' = after_lib
              /\ num_region_vars' = after_lib
              /\ pc' = "explicit"
              /\ UNCHANGED << item, bug, input_tys, output_ty, region_bound_pairs,
                              relations, ty_i, n_facts, q, cm, rv >>

\* ------------------------------------------------------- bound collection
GenericKinds == { [kind |-> "Param", name |-> "T"], [kind |-> "Projection", name |-> "T::Item"] }

RegionSubRegion(r1, r2) == [kind |-> "RegionSubRegion", r1 |-> r1, r2 |-> r2, gk |-> << >>]
RegionSubParam(r, g) == [kind |-> "RegionSubParam", r1 |-> r, r2 |-> r, gk |-> g]
RegionSubProjection(r, g) == [kind |-> "RegionSubProjection", r1 |-> r, r2 |-> r, gk |-> g]

OutlivesBounds(regions) ==
  { RegionSubRegion(r1, r2) : r1 \in regions, r2 \in regions }
    \cup { RegionSubParam(r, g) : r \in regions, g \in {x \in GenericKinds : x.kind = "Param"} }
    \cup { RegionSubProjection(r, g) :
             r \in regions, g \in {x \in GenericKinds : x.kind = "Projection"} }

\* The bounds of the parameter environment name the regions the item can
\* name: 'static and its early-bound regions.
ExplicitRegions == DOMAIN indices

\* The liberated inputs and output mention region variables only.
ImpliedRegions == { ReVar(v) : v \in 0..(num_universals - 1) }

\* add_outlives_bounds, the body of its loop for one bound:
\* [ok, relations, region_bound_pairs]
add_outlives_bound(ind, rels, pairs, bound) ==
  IF bound.kind = "RegionSubRegion"
    THEN LET r1 == to_region_vid(ind, bound.r1)
             r2 == to_region_vid(ind, bound.r2)
         IN  IF r1.ok /\ r2.ok
               THEN [ok |-> TRUE,
                     relations |-> relate_universal_regions(rels, r2.vid, r1.vid),
                     region_bound_pairs |-> pairs]
               ELSE [ok |-> FALSE, relations |-> rels, region_bound_pairs |-> pairs]
    ELSE [ok |-> TRUE, relations |-> rels,
          region_bound_pairs |-> Append(pairs, << bound.r1, bound.gk >>)]

AddBound(bound) ==
  LET res == add_outlives_bound(indices, relations, region_bound_pairs, bound)
  IN  IF ~res.ok THEN Fail("cannot convert to a region vid")
      ELSE /\ relations' = res.relations
           /\ region_bound_pairs' = res.region_bound_pairs
           /\ n_facts' = n_facts + 1
           /\ UNCHANGED << item, pc, bug, num_region_vars, fr_static,
                           first_extern_index, first_local_index, num_universals,
                           defining_ty, indices, inputs_and_output, input_tys,
                           output_ty, ty_i, q, cm, rv >>

\* build, line 414: one bound of explicit_outlives_bounds(param_env)
AddExplicitBound ==
  /\ pc = "explicit"
  /\ n_facts < MaxFacts
  /\ \E bound \in OutlivesBounds(ExplicitRegions) : AddBound(bound)

\* build, lines 414-417: the explicit bounds are exhausted
ExplicitDone ==
  /\ pc = "explicit"
  /\ pc' = "implied"
  /\ ty_i' = 1
  /\ UNCHANGED << item, bug, num_region_vars, fr_static, first_extern_index,
                  first_local_index, num_universals, defining_ty, indices,
                  inputs_and_output, input_tys, output_ty, region_bound_pairs,
                  relations, n_facts, q, cm, rv >>

\* add_implied_bounds: one implied bound of inputs_and_output[ty_i]
AddImpliedBound ==
  /\ pc = "implied"
  /\ ty_i <= Len(inputs_and_output)
  /\ n_facts < MaxFacts
  /\ \E bound \in OutlivesBounds(ImpliedRegions) : AddBound(bound)

\* build, line 417: the loop moves to the next input or output
NextInputOrOutput ==
  /\ pc = "implied"
  /\ ty_i <= Len(inputs_and_output)
  /\ ty_i' = ty_i + 1
  /\ UNCHANGED << item, pc, bug, num_region_vars, fr_static, first_extern_index,
                  first_local_index, num_universals, defining_ty, indices,
                  inputs_and_output, input_tys, output_ty, region_bound_pairs,
                  relations, n_facts, q, cm, rv >>

\* build, lines 424-428: for fr in FIRST_GLOBAL_INDEX..num_universals,
\* relate fr to itself and 'static to fr
RECURSIVE close_relations_NoReflexive(_, _, _, _)
close_relations_NoReflexive(rels, static, fr, n) ==
  IF fr >= n THEN rels
  ELSE close_relations_NoReflexive(
         relate_universal_regions(rels, static, fr), static, fr + 1, n)

RECURSIVE close_relations(_, _, _, _)
close_relations(rels, static, fr, n) ==
  IF fr >= n THEN rels
  ELSE close_relations(
         relate_universal_regions(relate_universal_regions(rels, fr, fr), static, fr),
         static, fr + 1, n)

\* add_outlives_bounds over region-sub-region bounds only, each given as
\* the pair << vid of r2, vid of r1 >> it relates, on a fresh builder
RECURSIVE relate_all(_, _)
relate_all(rels, pairs) ==
  IF pairs = << >> THEN rels
  ELSE relate_all(relate_universal_regions(rels, Head(pairs)[1], Head(pairs)[2]),
                  Tail(pairs))

\* the sequences that hold exactly the pairs of F, in any order, one of
\* them possibly repeated
RECURSIVE SeqsOver(_, _)
SeqsOver(S, n) ==
  IF n = 0 THEN { << >> }
  ELSE LET shorter == SeqsOver(S, n - 1)
       IN  shorter \cup { Append(t, x) : t \in { u \in shorter : Len(u) = n - 1 }, x \in S }

FactOrders(F) == { t \in SeqsOver(F, Cardinality(F) + 1) : Range(t) = F }

\* the pairs << a, b >> for which the UniversalRegions built from rels
\* answers outlives(a, b)
outlives_of(rel) ==
  { p \in rel.closure : p[1] \in Range(rel.elements) /\ p[2] \in Range(rel.elements) }

outlives_after_build(rels) ==
  outlives_of(close_relations(rels, fr_static, FIRST_GLOBAL_INDEX, num_universals).outlives)

\* build, lines 422-457: close the relations, split the output off the
\* inputs, check that no variable was created meanwhile
BuildFinish ==
  /\ pc = "implied"
  /\ ty_i > Len(inputs_and_output)
  /\ IF Len(inputs_and_output) = 0 THEN Fail("split_last of an empty list")
     ELSE IF num_region_vars # num_universals THEN Fail("more variables were created")
     ELSE /\ relations' = close_relations(relations, fr_static, FIRST_GLOBAL_INDEX,
                                          num_universals)
          /\ output_ty' = inputs_and_output[Len(inputs_and_output)]
          /\ input_tys' = SubSeq(inputs_and_output, 1, Len(inputs_and_output) - 1)
          /\ pc' = "built"
          /\ UNCHANGED << item, bug, num_region_vars, fr_static, first_extern_index,
                          first_local_index, num_universals, defining_ty, indices,
                          inputs_and_output, region_bound_pairs, ty_i, n_facts, q, cm, rv >>

\* ------------------------------------------------------- non_local_bound
\* the relation non_local_upper_bound / non_local_lower_bound hand over
bound_relation_Swapped(dir) ==
  IF dir = "upper" THEN relations.outlives ELSE relations.inverse_outlives
bound_relation(dir) ==
  IF dir = "upper" THEN relations.inverse_outlives ELSE relations.outlives

\* one iteration of `while let Some(fr) = queue.pop()` (lines 313-320):
\* [queue, external_parents]
non_local_bound_step_NoPop(relation, queue, external_parents) ==
  LET fr == queue[Len(queue)]
  IN  IF ~is_local_free_region(fr)
        THEN [queue |-> queue, external_parents |-> Append(external_parents, fr)]
        ELSE [queue |-> queue \o TR_parents(relation, fr),
              external_parents |-> external_parents]
non_local_bound_step(relation, queue, external_parents) ==
  LET fr == queue[Len(queue)]
      rest == SubSeq(queue, 1, Len(queue) - 1)
  IN  IF ~is_local_free_region(fr)
        THEN [queue |-> rest, external_parents |-> Append(external_parents, fr)]
        ELSE [queue |-> rest \o TR_parents(relation, fr),
              external_parents |-> external_parents]

\* lines 327-341: reduce the candidates to one, drop it when it is local
non_local_bound_post_dom(relation, external_parents) ==
  LET post_dom == TR_mutual_immediate_postdominator(relation, external_parents)
  IN  IF post_dom = None THEN None
      ELSE IF ~is_local_free_region(post_dom[1]) THEN post_dom
      ELSE None

\* non_local_upper_bound(fr): found is what non_local_bound gave for fr over
\* inverse_outlives; .unwrap_or(self.fr_static)
non_local_upper_bound_of_UnwrapOrSelf(fr, found) ==
  IF found = None THEN fr ELSE found[1]
non_local_upper_bound_of(fr, found) ==
  IF found = None THEN fr_static ELSE found[1]

\* non_local_lower_bound(fr): the Option of non_local_bound over outlives
non_local_lower_bound_of(fr, found) == found

\* what the caller of non_local_upper_bound / non_local_lower_bound gets
non_local_bound_answer(dir, fr, found) ==
  IF dir = "upper" THEN Some(non_local_upper_bound_of(fr, found))
  ELSE non_local_lower_bound_of(fr, found)

\* the while loop of non_local_bound, followed for at most MaxSteps
\* iterations: [queue, external_parents, steps]
RECURSIVE non_local_bound_loop(_, _, _, _)
non_local_bound_loop(relation, queue, external_parents, steps) ==
  IF queue = << >> \/ steps >= MaxSteps
    THEN [queue |-> queue, external_parents |-> external_parents, steps |-> steps]
  ELSE LET nx == non_local_bound_step(relation, queue, external_parents)
       IN  non_local_bound_loop(relation, nx.queue, nx.external_parents, steps + 1)

UnchangedByQuery ==
  UNCHANGED << item, bug, num_region_vars, fr_static, first_extern_index,
               first_local_index, num_universals, defining_ty, indices,
               inputs_and_output, input_tys, output_ty, region_bound_pairs,
               relations, ty_i, n_facts, cm, rv >>

\* non_local_upper_bound(fr0) / non_local_lower_bound(fr0) as one step: the
\* whole of non_local_bound and the caller's unwrap_or.  A call whose loop
\* is still busy after MaxSteps iterations is left hanging in "nlb".
\* The call takes &self and changes nothing of the UniversalRegions, so a
\* behaviour makes one call: a second one would meet the same value.
NonLocalBound ==
  /\ pc = "built"
  /\ q = NoQuery
  /\ \E dir \in {"upper", "lower"}, fr0 \in 0..num_universals :
       LET relation == bound_relation(dir)
           end == non_local_bound_loop(relation, << fr0 >>, << >>, 0)
       IN  IF end.queue # << >>
             THEN /\ q' = [dir |-> dir, fr0 |-> fr0, queue |-> end.queue,
                           external_parents |-> end.external_parents,
                           steps |-> end.steps, done |-> FALSE, result |-> None]
                  /\ pc' = "nlb"
             ELSE /\ q' = [dir |-> dir, fr0 |-> fr0, queue |-> << >>,
                           external_parents |-> end.external_parents,
                           steps |-> end.steps, done |-> TRUE,
                           result |-> non_local_bound_answer(
                                        dir, fr0, non_local_bound_post_dom(
                                               relation, end.external_parents))]
                  /\ pc' = "built"
  /\ UnchangedByQuery

\* The same call, one iteration of its loop at a time.
NonLocalBoundCall ==
  /\ pc = "built"
  /\ q = NoQuery
  /\ \E dir \in {"upper", "lower"}, fr0 \in 0..num_universals :
       q' = [dir |-> dir, fr0 |-> fr0, queue |-> << fr0 >>, external_parents |-> << >>,
             steps |-> 0, done |-> FALSE, result |-> None]
  /\ pc' = "nlb"
  /\ UnchangedByQuery

NonLocalBoundLoop ==
  /\ pc = "nlb"
  /\ q.queue # << >>
  /\ q.steps < MaxSteps
  /\ LET nx == non_local_bound_step(bound_relation(q.dir), q.queue, q.external_parents)
     IN  q' = [q EXCEPT !.queue = nx.queue, !.external_parents = nx.external_parents,
                        !.steps = @ + 1]
  /\ pc' = pc
  /\ UnchangedByQuery

NonLocalBoundReturn ==
  /\ pc = "nlb"
  /\ q.queue = << >>
  /\ q' = [q EXCEPT !.done = TRUE,
                    !.result = non_local_bound_answer(
                                 q.dir, q.fr0, non_local_bound_post_dom(
                                          bound_relation(q.dir), q.external_parents))]
  /\ pc' = "built"
  /\ UnchangedByQuery

\* --------------------------------------------------------- to_region_vid
\* the regions a caller can hand to to_region_vid
AnyRegions ==
  {ReStatic, ReErased}
    \cup { ReEarlyBound(i) : i \in 1..MaxFree }
    \cup { ReVar(v) : v \in 0..MaxUniversals }
    \cup { ReLateBound(i) : i \in 1..MaxLate }

\* universal_regions.indices.to_region_vid(r) on the constructed value: a
\* first call on any region, then the same call once more
ToRegionVidCall ==
  /\ pc = "built"
  /\ Len(rv.results) < 2
  /\ \E r \in AnyRegions :
       /\ rv.results # << >> => r = rv.r
       /\ rv' = [r |-> r, results |-> Append(rv.results, to_region_vid(indices, r))]
  /\ UNCHANGED << item, pc, bug, num_region_vars, fr_static, first_extern_index,
                  first_local_index, num_universals, defining_ty, indices,
                  inputs_and_output, input_tys, output_ty, region_bound_pairs,
                  relations, ty_i, n_facts, q, cm >>

\* ------------------------------------------------------- closure_mapping
\* the regions a closure type can mention at its creator's side
CallSiteRegions == { ReEarlyBound(1), ReVar(1) }

RECURSIVE SeqsUpTo(_, _)
SeqsUpTo(S, n) ==
  IF n = 0 THEN { << >> }
  ELSE LET shorter == SeqsUpTo(S, n - 1)
       IN  shorter \cup { Append(t, x) : t \in { u \in shorter : Len(u) = n - 1 }, x \in S }

\* closure_mapping (lines 199-217): [panicked, region_mapping]; closure_ty
\* is the sequence of its free regions as for_each_free_region meets them
closure_mapping_NoAssert(closure_ty, expected_num_vars) ==
  [panicked |-> FALSE, region_mapping |-> << ReStatic >> \o closure_ty]
closure_mapping(closure_ty, expected_num_vars) ==
  LET region_mapping == << ReStatic >> \o closure_ty
  IN  IF Len(region_mapping) # expected_num_vars
        THEN [panicked |-> TRUE, region_mapping |-> << >>]
        ELSE [panicked |-> FALSE, region_mapping |-> region_mapping]

ClosureMappingCall ==
  /\ pc = "new"
  /\ \E closure_ty \in SeqsUpTo(CallSiteRegions, MaxFree),
        expected_num_vars \in 0..(MaxFree + 2) :
       LET res == closure_mapping(closure_ty, expected_num_vars)
       IN  cm' = [closure_ty |-> closure_ty, expected_num_vars |-> expected_num_vars,
                  called |-> TRUE, panicked |-> res.panicked,
                  region_mapping |-> res.region_mapping]
  /\ pc' = "mapped"
  /\ UNCHANGED << item, bug, num_region_vars, fr_static, first_extern_index,
                  first_local_index, num_universals, defining_ty, indices,
                  inputs_and_output, input_tys, output_ty, region_bound_pairs,
                  relations, ty_i, n_facts, q, rv >>

\* ----------------------------------------------------------- behaviours
Build ==
  \/ BuildAllocate
  \/ AddExplicitBound
  \/ ExplicitDone
  \/ AddImpliedBound
  \/ NextInputOrOutput
  \/ BuildFinish

Next ==
  \/ Build
  \/ NonLocalBound

Spec == Init /\ [][Next]_vars

\* The second specification follows non_local_bound iteration by iteration.
\* The call is synchronous: once made, its loop and its return are taken
\* whenever they can be.
NextLoop ==
  \/ Build
  \/ NonLocalBoundCall
  \/ NonLocalBoundLoop
  \/ NonLocalBoundReturn

SpecLoop ==
  Init /\ [][NextLoop]_vars /\ WF_vars(NonLocalBoundLoop) /\ WF_vars(NonLocalBoundReturn)

\* The third specification is the creator's side of a closure: it calls
\* closure_mapping, an associated function that reads no UniversalRegions.
NextMapping == ClosureMappingCall

SpecMapping == Init /\ [][NextMapping]_vars

\* The fourth specification is a user of the indices: it constructs the
\* UniversalRegions and translates regions with to_region_vid.
NextVid ==
  \/ Build
  \/ ToRegionVidCall

SpecVid == Init /\ [][NextVid]_vars

\* --------------------------------------------------------------- claims
\* build has returned a UniversalRegions
Constructed == pc \in {"built", "nlb"}

Universals == 0..(num_universals - 1)

\* a non_local_bound call on a universal region has returned
Answered(dir) == pc = "built" /\ q.done /\ q.dir = dir /\ is_universal_region(q.fr0)

\* C1: after construction the global region is identity 0 and Global, the
\* markers satisfy 0 < extern_start = 1 <= local_start <= total, and the
\* classification is Global exactly for 0, External exactly for
\* [extern_start, local_start), Local exactly for [local_start, total) and
\* none from total on.
C1_ClassificationPartition ==
  Constructed =>
    /\ fr_static = 0
    /\ region_classification(fr_static) = Some("Global")
    /\ 0 < first_extern_index
    /\ first_extern_index = 1
    /\ first_extern_index <= first_local_index
    /\ first_local_index <= num_universals
    /\ \A r \in 0..(num_universals + 2) :
         /\ (region_classification(r) = Some("Global")) <=> (r = 0)
         /\ (region_classification(r) = Some("External"))
              <=> (first_extern_index <= r /\ r < first_local_index)
         /\ (region_classification(r) = Some("Local"))
              <=> (first_local_index <= r /\ r < num_universals)
         /\ (region_classification(r) = None) <=> (r >= num_universals)

C1_Witness ==
  /\ pc = "built"
  /\ first_extern_index < first_local_index
  /\ first_local_index < num_universals

\* C2: for a plain function the defining-type step allocates no identity:
\* extern_start = local_start, nothing is External and every universal
\* region but the global one is Local.
C2_PlainFnHasNoExternal ==
  (Constructed /\ item.kind = "TyFnDef") =>
    /\ first_extern_index = first_local_index
    /\ \A r \in Universals : ~is_extern_free_region(r)
    /\ \A r \in Universals : r # fr_static => is_local_free_region(r)

\* C3: in every constructed UniversalRegions each universal region outlives
\* itself and is outlived by the global region, whatever bounds were fed.
C3_ReflexiveAndStatic ==
  Constructed =>
    \A x \in Universals : outlives(x, x) /\ outlives(fr_static, x)

C3_Witness ==
  /\ pc = "built"
  /\ num_universals >= 3
  /\ n_facts = 0

\* C4: the outlives query is transitive, although only direct edges are
\* recorded.
C4_OutlivesTransitive ==
  \A a \in 0..num_universals, b \in 0..num_universals :
    outlives(a, b) =>
      \A c \in 0..num_universals : outlives(b, c) => outlives(a, c)

C4_Witness ==
  /\ pc = "built"
  /\ \E a \in Universals, b \in Universals, c \in Universals :
       /\ a # b /\ b # c /\ a # c /\ a # fr_static
       /\ <<a, b>> \in relations.outlives.edges
       /\ <<b, c>> \in relations.outlives.edges
       /\ <<a, c>> \notin relations.outlives.edges
       /\ outlives(a, c)

\* C5: non_local_upper_bound of a universal region is never Local, and
\* non_local_lower_bound is none or not Local.
C5_BoundNotLocal ==
  /\ Answered("upper") => ~is_local_free_region(q.result[1])
  /\ Answered("lower") => (q.result = None \/ ~is_local_free_region(q.result[1]))

\* the search started at a Local region and found nothing: the upper bound
\* is the fallback
C5_Witness ==
  /\ Answered("upper")
  /\ is_local_free_region(q.fr0)
  /\ q.external_parents = << >>
  /\ q.result = Some(fr_static)

\* C6: the work-queue loop of non_local_bound on a universal region empties
\* and the call returns, in both directions.
C6_SearchTerminates ==
  (pc = "nlb" /\ is_universal_region(q.fr0)) ~> (pc = "built" /\ q.done)

\* a call on a Local region that lies on a cycle of Local regions returned
C6_Witness ==
  /\ pc = "built"
  /\ q.done
  /\ q.steps >= 2
  /\ is_local_free_region(q.fr0)
  /\ \E x \in Universals :
       /\ x # q.fr0
       /\ is_local_free_region(x)
       /\ outlives(x, q.fr0)
       /\ outlives(q.fr0, x)

\* C7: the non-local upper bound of fr outlives fr, and fr outlives its
\* non-local lower bound when there is one.
C7_BoundIsABound ==
  /\ Answered("upper") => outlives(q.result[1], q.fr0)
  /\ Answered("lower") => (q.result # None => outlives(q.fr0, q.result[1]))

C7_Witness ==
  /\ Answered("lower")
  /\ is_local_free_region(q.fr0)
  /\ q.result # None
  /\ q.result[1] # fr_static

\* fn foo<'a, 'b, 'c: 'b>(): three early-bound regions 1, 2, 3 and the one
\* explicit bound 'c: 'b
ScenarioFoo ==
  /\ pc = "built"
  /\ item = [kind |-> "TyFnDef", substs_regions |-> 3, nested_regions |-> 0,
             identity_regions |-> 3, late_bound |-> 0, n_inputs |-> 0]
  /\ n_facts = 1
  /\ region_bound_pairs = << >>
  /\ <<3, 2>> \in relations.outlives.edges

\* C8: for fn foo<'a, 'b, 'c: 'b>() there are four universal regions, 'c
\* outlives 'b, and non_local_upper_bound('b) is the global region.
C8_FooUpperBoundIsStatic ==
  ScenarioFoo =>
    /\ num_universals = 4
    /\ outlives(3, 2)
    /\ (q.done /\ q.dir = "upper" /\ q.fr0 = 2) => q.result = Some(0)

\* C9: closure_mapping returns exactly expected_num_vars regions, 'static
\* first and then the free regions of the closure type in traversal order,
\* or fails when 1 + their number differs from expected_num_vars.
C9_ClosureMappingExactOrFatal ==
  cm.called =>
    IF 1 + Len(cm.closure_ty) = cm.expected_num_vars
      THEN /\ ~cm.panicked
           /\ Len(cm.region_mapping) = cm.expected_num_vars
           /\ cm.region_mapping[1] = ReStatic
           /\ \A i \in 1..Len(cm.closure_ty) : cm.region_mapping[i + 1] = cm.closure_ty[i]
      ELSE /\ cm.panicked
           /\ cm.region_mapping = << >>

C9_Witness ==
  /\ cm.called
  /\ ~cm.panicked
  /\ Len(cm.closure_ty) = 2
  /\ cm.closure_ty[1] # cm.closure_ty[2]

\* C10: the k free regions of a closure type get the identities 1..k, are
\* External and below every Local identity, and
\* num_global_and_external_regions() is 1 + k.
C10_ClosureExternals ==
  (Constructed /\ item.kind = "TyClosure") =>
    /\ Range(defining_ty.substs) \cup Range(defining_ty.nested)
         = { ReVar(i) : i \in 1..free_regions(item) }
    /\ \A i \in 1..free_regions(item) :
         /\ is_extern_free_region(i)
         /\ \A r \in Universals : is_local_free_region(r) => i < r
    /\ num_global_and_external_regions = 1 + free_regions(item)

C10_Witness ==
  /\ pc = "built"
  /\ item.kind = "TyClosure"
  /\ item.substs_regions = 1
  /\ item.nested_regions = 1
  /\ item.late_bound >= 1
  /\ num_global_and_external_regions = 3
\* C11: for a generator the liberated sequence is [defining type, return
\* type]: input_tys is the defining type alone, output_ty the return type,
\* whatever the inputs and captures, and liberating allocates no Local
\* identity (first_local_index = num_universals).
C11_GeneratorInputsAndOutput ==
  (item.kind = "TyGenerator" /\ pc \notin {"new", "bug"}) =>
    /\ inputs_and_output = << Ty("defining_ty", 0), Ty("generator_return_ty", 0) >>
    /\ first_local_index = num_universals
    /\ Constructed =>
         /\ input_tys = << Ty("defining_ty", 0) >>
         /\ output_ty = Ty("generator_return_ty", 0)
         /\ \A r \in Universals : ~is_local_free_region(r)

C11_Witness ==
  /\ pc = "built"
  /\ item.kind = "TyGenerator"
  /\ item.n_inputs = 1
  /\ free_regions(item) >= 2
  /\ Len(input_tys) = 1
\* C12: to_region_vid returns the identity an identity-form region carries,
\* the stored identity for the global region (always 0) and for a mapped
\* early-bound region, the same on every call, and fails on every other
\* shape of region.
C12_ToRegionVid ==
  \A k \in 1..Len(rv.results) :
    LET res == rv.results[k]
    IN  /\ res = rv.results[1]
        /\ rv.r.tag = "ReVar" => res.ok /\ res.vid = rv.r.n
        /\ rv.r = ReStatic => res.ok /\ res.vid = indices[ReStatic] /\ res.vid = 0
        /\ (rv.r.tag = "ReEarlyBound" /\ rv.r \in DOMAIN indices)
             => res.ok /\ res.vid = indices[rv.r]
        /\ rv.r.tag \notin {"ReVar", "ReStatic", "ReEarlyBound"} => ~res.ok

\* a mapped early-bound region was translated twice, and a late-bound one
\* can be asked for as well
C12_Witness ==
  /\ Len(rv.results) = 2
  /\ rv.r = ReEarlyBound(2)
  /\ rv.r \in DOMAIN indices
  /\ rv.results[2].ok
\* C13: every region stored in region_bound_pairs is a key of the indices
\* map: the global region or a mapped early-bound region under its own
\* name, never an identity-form region.
C13_BoundPairRegionsAreKeys ==
  \A k \in 1..Len(region_bound_pairs) :
    /\ region_bound_pairs[k][1] \in DOMAIN indices
    /\ region_bound_pairs[k][1].tag \in {"ReStatic", "ReEarlyBound"}
\* C14: a query on an identity r outside [0, total) completes and reports
\* that r is no universal region: is_universal_region is false, the
\* classification is none, the three is_*_free_region are false, and the
\* non-local upper and lower bounds of r are no identity outside [0, total).
C14_OutOfRangeIsNotUniversal ==
  Constructed =>
    /\ \A r \in num_universals..(num_universals + 2) :
         /\ ~is_universal_region(r)
         /\ region_classification(r) = None
         /\ ~is_global_free_region(r)
         /\ ~is_extern_free_region(r)
         /\ ~is_local_free_region(r)
    /\ (pc = "built" /\ q.done /\ ~is_universal_region(q.fr0)) =>
         (q.result = None \/ is_universal_region(q.result[1]))
\* C15: the outlives answers of the construction depend on the set of
\* region-sub-region facts only: feeding the same facts in any other order,
\* with repetitions, gives a construction that answers outlives(a, b) alike
\* for every pair of identities.
C15_BoundOrderIndependent ==
  pc \in {"explicit", "implied"} =>
    \A t \in FactOrders(relations.outlives.edges) :
      outlives_after_build(relate_all([outlives |-> TR_new, inverse_outlives |-> TR_new], t))
        = outlives_after_build(relations)

\* two facts that chain were fed, the later link first
C15_Witness ==
  /\ pc = "implied"
  /\ ty_i > Len(inputs_and_output)
  /\ n_facts = 2
  /\ \E a \in Universals, b \in Universals, c \in Universals :
       /\ a # b /\ b # c /\ a # c /\ a # fr_static
       /\ relations.outlives.edges = { <<a, b>>, <<b, c>> }
       /\ relations.outlives.elements = << b, c, a >>
\* C16: at every point the two graphs are mirrors, the forward graph
\* holding (a, b) exactly when the inverse graph holds (b, a); a
\* region-sub-region fact r1 <= r2 adds the forward edge (vid(r2), vid(r1))
\* and the inverse edge (vid(r1), vid(r2)) and nothing else, and a
\* region-sub-parameter or region-sub-projection fact adds no edge.
C16_MirroredStep ==
  /\ relations'.inverse_outlives.edges
       = { << e[2], e[1] >> : e \in relations'.outlives.edges }
  /\ relations'.inverse_outlives.closure
       = { << e[2], e[1] >> : e \in relations'.outlives.closure }
  /\ region_bound_pairs' # region_bound_pairs => relations' = relations
  /\ (n_facts' = n_facts + 1 /\ region_bound_pairs' = region_bound_pairs) =>
       \E r1 \in ExplicitRegions \cup ImpliedRegions,
          r2 \in ExplicitRegions \cup ImpliedRegions :
         LET v1 == to_region_vid(indices, r1).vid
             v2 == to_region_vid(indices, r2).vid
         IN  /\ relations'.outlives.edges
                  = relations.outlives.edges \cup { << v2, v1 >> }
             /\ relations'.inverse_outlives.edges
                  = relations.inverse_outlives.edges \cup { << v1, v2 >> }

====
